---- MODULE Spec2Model ----
(***************************************************************************)
(* otelx: configuration-driven bootstrap of an OpenTelemetry tracing       *)
(* pipeline.  The model follows Setup (provider.go) statement by           *)
(* statement: sanitize and validate the Config, fold the options, build    *)
(* the exporter, resolve the sampling ratio, compose the resource,         *)
(* assemble the provider and propagator, optionally register them as the   *)
(* process-wide defaults, and return the handle; Provider.Shutdown is the  *)
(* handle's only operation.                                                *)
(*                                                                         *)
(* Strings are tuples of one-character strings, so that TrimSpace and      *)
(* ToLower are computed character by character.  Sampling ratios are exact *)
(* rationals [num, den] in lowest terms with den > 0 (the real numbers of  *)
(* the configuration schema; IEEE NaN and infinities are not inputs of the *)
(* model).  Errors are records: the message as a tuple of fragments and    *)
(* the set of messages of the errors it wraps with %w.                     *)
(***************************************************************************)
EXTENDS Integers, Sequences, FiniteSets, TLC

\* ------------------------------------------------------------------ bounds

\* Longest run of whitespace put before and after a textual input.
MaxPad == 1
\* Longest option list handed to one Setup call.
MaxOpts == 2
\* Number of Setup invocations the model keeps state for.
MaxCalls == 2
\* Number of Shutdown calls made on one handle.
MaxShutdowns == 2

\* Trace identifiers are 0..MaxTraceID, standing for equal slices of the
\* 63-bit range TraceIDRatioBased compares against.
MaxTraceID == 3

Calls == 1..MaxCalls

\* ----------------------------------------------------------------- strings

Upper == <<"A","B","C","D","E","F","G","H","I","J","K","L","M",
           "N","O","P","Q","R","S","T","U","V","W","X","Y","Z">>
Lower == <<"a","b","c","d","e","f","g","h","i","j","k","l","m",
           "n","o","p","q","r","s","t","u","v","w","x","y","z">>

\* unicode.IsSpace on the characters the inputs use.
IsSpace(ch) == ch \in {" ", "\t", "\n", "\r"}

ToLowerChar_swapcase(ch) ==
    IF \E i \in 1..Len(Upper) : Upper[i] = ch
    THEN Lower[CHOOSE i \in 1..Len(Upper) : Upper[i] = ch]
    ELSE IF \E i \in 1..Len(Lower) : Lower[i] = ch
         THEN Upper[CHOOSE i \in 1..Len(Lower) : Lower[i] = ch]
         ELSE ch

ToLowerChar(ch) ==
    IF \E i \in 1..Len(Upper) : Upper[i] = ch
    THEN Lower[CHOOSE i \in 1..Len(Upper) : Upper[i] = ch]
    ELSE ch

\* strings.ToLower
ToLower(s) == [i \in 1..Len(s) |-> ToLowerChar(s[i])]

RECURSIVE TrimLeft(_)
TrimLeft(s) ==
    IF s # <<>> /\ IsSpace(Head(s)) THEN TrimLeft(Tail(s)) ELSE s

RECURSIVE TrimRight(_)
TrimRight(s) ==
    IF s # <<>> /\ IsSpace(s[Len(s)])
    THEN TrimRight(SubSeq(s, 1, Len(s) - 1))
    ELSE s

\* strings.TrimSpace
TrimSpace(s) == TrimRight(TrimLeft(s))

\* strings.Contains at the granularity of message fragments.
Contains(text, frag) == \E i \in 1..Len(text) : text[i] = frag

\* ------------------------------------------------------------------ errors

Nil == [nil |-> TRUE, text |-> <<>>, wraps |-> {}]

\* fmt.Errorf without %w, and errors of the collaborators.
NewError(text) == [nil |-> FALSE, text |-> text, wraps |-> {}]

\* fmt.Errorf(prefix + "%w", cause)
Wrap(prefix, cause) ==
    [nil |-> FALSE, text |-> prefix \o cause.text,
     wraps |-> {cause.text} \cup cause.wraps]

\* errors.Is(err, target)
Is(err, target) ==
    /\ ~err.nil
    /\ ~target.nil
    /\ (err.text = target.text \/ target.text \in err.wraps)

\* ------------------------------------------------------------------ config

ExporterStdout     == <<"s","t","d","o","u","t">>
ExporterOTLP       == <<"o","t","l","p">>
ExporterCloudTrace == <<"c","l","o","u","d","t","r","a","c","e">>

\* *float64: nil, or a pointer to num/den.
NoRatio == [present |-> FALSE, num |-> 0, den |-> 1]
Float64(n, d) == [present |-> TRUE, num |-> n, den |-> d]

DefaultSamplingRatio == Float64(1, 10)

\* ratio < bound and ratio > bound on rationals with positive denominators.
Less(a, b) == a.num * b.den < b.num * a.den

Zero == Float64(0, 1)
One  == Float64(1, 1)

sanitize_swapCase(cfg) ==
    [cfg EXCEPT !.ServiceName    = TrimSpace(cfg.ServiceName),
                !.ServiceVersion = TrimSpace(cfg.ServiceVersion),
                !.Environment    = TrimSpace(cfg.Environment),
                !.Endpoint       = TrimSpace(cfg.Endpoint),
                !.GCPProjectID   = TrimSpace(cfg.GCPProjectID),
                !.Exporter       = [i \in 1..Len(cfg.Exporter) |->
                                      ToLowerChar_swapcase(cfg.Exporter[i])]]

\* Config.sanitize: a value receiver, so the result is a copy.
sanitize(cfg) ==
    [cfg EXCEPT !.ServiceName    = TrimSpace(cfg.ServiceName),
                !.ServiceVersion = TrimSpace(cfg.ServiceVersion),
                !.Environment    = TrimSpace(cfg.Environment),
                !.Endpoint       = TrimSpace(cfg.Endpoint),
                !.GCPProjectID   = TrimSpace(cfg.GCPProjectID),
                !.Exporter       = ToLower(cfg.Exporter)]

\* %v of a sampling ratio, as message fragments.
FormatRatio(r) == <<ToString(r.num), "/", ToString(r.den)>>

ErrServiceName == NewError(<<"otelx: ", "serviceName", " is required">>)
ErrUnsupported(exporter) ==
    NewError(<<"otelx: ", "unsupported exporter", " ", "\"">> \o exporter \o <<"\"">>)
ErrSamplingRatio(r) ==
    NewError(<<"otelx: ", "samplingRatio", " must be within [0,1], got ">>
             \o FormatRatio(r))
ErrGCPProjectID ==
    NewError(<<"otelx: ", "gcpProjectId", " is required when exporter=cloudtrace">>)

validate_ratioFirst(cfg) ==
    IF cfg.ServiceName = <<>> THEN ErrServiceName
    ELSE IF cfg.SamplingRatio.present
            /\ (Less(cfg.SamplingRatio, Zero) \/ Less(One, cfg.SamplingRatio))
    THEN ErrSamplingRatio(cfg.SamplingRatio)
    ELSE IF cfg.Exporter \notin {<<>>, ExporterStdout, ExporterOTLP, ExporterCloudTrace}
    THEN ErrUnsupported(cfg.Exporter)
    ELSE IF cfg.Exporter = ExporterCloudTrace /\ cfg.GCPProjectID = <<>>
    THEN ErrGCPProjectID
    ELSE Nil

validate_anyExporter(cfg) ==
    IF cfg.ServiceName = <<>> THEN ErrServiceName
    ELSE IF cfg.SamplingRatio.present
            /\ (Less(cfg.SamplingRatio, Zero) \/ Less(One, cfg.SamplingRatio))
    THEN ErrSamplingRatio(cfg.SamplingRatio)
    ELSE IF cfg.Exporter = ExporterCloudTrace /\ cfg.GCPProjectID = <<>>
    THEN ErrGCPProjectID
    ELSE Nil

\* Config.validate
validate(cfg) ==
    IF cfg.ServiceName = <<>> THEN ErrServiceName
    ELSE IF cfg.Exporter \notin {<<>>, ExporterStdout, ExporterOTLP, ExporterCloudTrace}
    THEN ErrUnsupported(cfg.Exporter)
    ELSE IF cfg.SamplingRatio.present
            /\ (Less(cfg.SamplingRatio, Zero) \/ Less(One, cfg.SamplingRatio))
    THEN ErrSamplingRatio(cfg.SamplingRatio)
    ELSE IF cfg.Exporter = ExporterCloudTrace /\ cfg.GCPProjectID = <<>>
    THEN ErrGCPProjectID
    ELSE Nil

\* ----------------------------------------------------------------- options

\* The zero-valued setupOptions.
ZeroOptions ==
    [global |-> FALSE, propagator |-> "nil", resourceOpts |-> <<>>,
     samplerHook |-> "nil"]

\* An Option value: nil, or the closure one of the four constructors returns.
NilOption == [kind |-> "nil", p |-> "nil", ropts |-> <<>>, hook |-> "nil"]
WithGlobal == [kind |-> "WithGlobal", p |-> "nil", ropts |-> <<>>, hook |-> "nil"]
WithPropagator(p) ==
    [kind |-> "WithPropagator", p |-> p, ropts |-> <<>>, hook |-> "nil"]
WithResourceOptions(ropts) ==
    [kind |-> "WithResourceOptions", p |-> "nil", ropts |-> ropts, hook |-> "nil"]
withSamplerHook(hook) ==
    [kind |-> "withSamplerHook", p |-> "nil", ropts |-> <<>>, hook |-> hook]

ApplyOption_replaceDirectives(opt, o) ==
    CASE opt.kind = "WithGlobal"          -> [o EXCEPT !.global = TRUE]
      [] opt.kind = "WithPropagator"      -> [o EXCEPT !.propagator = opt.p]
      [] opt.kind = "WithResourceOptions" -> [o EXCEPT !.resourceOpts = opt.ropts]
      [] opt.kind = "withSamplerHook"     -> [o EXCEPT !.samplerHook = opt.hook]
      [] OTHER                            -> o

\* opt(options): the body of the closure.
ApplyOption(opt, o) ==
    CASE opt.kind = "WithGlobal"          -> [o EXCEPT !.global = TRUE]
      [] opt.kind = "WithPropagator"      -> [o EXCEPT !.propagator = opt.p]
      [] opt.kind = "WithResourceOptions" ->
            [o EXCEPT !.resourceOpts = o.resourceOpts \o opt.ropts]
      [] opt.kind = "withSamplerHook"     -> [o EXCEPT !.samplerHook = opt.hook]
      [] OTHER                            -> o

\* for _, opt := range opts { if opt != nil { opt(options) } }
RECURSIVE ApplyOptions(_, _)
ApplyOptions(os, o) ==
    IF os = <<>> THEN o
    ELSE ApplyOptions(Tail(os),
                      IF Head(os).kind # "nil" THEN ApplyOption(Head(os), o) ELSE o)

\* Number of closures the loop invokes.
RECURSIVE Invoked(_)
Invoked(os) ==
    IF os = <<>> THEN 0
    ELSE (IF Head(os).kind # "nil" THEN 1 ELSE 0) + Invoked(Tail(os))

\* The default propagator: TraceContext composed with Baggage.
DefaultPropagator == "TraceContext+Baggage"

\* ---------------------------------------------------------------- exporter

NoExporter == [kind |-> "nil", ctorOpts |-> <<>>]

\* The otlptracegrpc options buildExporter collects.
OTLPOptions(cfg) ==
    (IF cfg.Endpoint # <<>> THEN <<"WithEndpoint">> ELSE <<>>)
    \o (IF cfg.Insecure THEN <<"WithInsecure">> ELSE <<>>)
    \o (IF cfg.Headers # {} THEN <<"WithHeaders">> ELSE <<>>)

Attempt(ctor, prefix, ctorOpts, level, msg, hasLogger, ctorErr) ==
    IF ~ctorErr.nil
    THEN [exporter |-> NoExporter, ctor |-> ctor, logs |-> <<>>,
          err |-> Wrap(<<"otelx: create ", prefix, ": ">>, ctorErr)]
    ELSE [exporter |-> [kind |-> ctor, ctorOpts |-> ctorOpts], ctor |-> ctor,
          logs |-> IF hasLogger THEN <<[level |-> level, msg |-> msg]>> ELSE <<>>,
          err |-> Nil]

buildExporter_wrongPrefix(cfg, hasLogger, ctorErr) ==
    CASE cfg.Exporter \in {<<>>, ExporterStdout} ->
            Attempt("stdouttrace", "stdout exporter", <<"WithPrettyPrint">>,
                    "debug", "otelx.exporter.stdout.enabled", hasLogger, ctorErr)
      [] cfg.Exporter = ExporterOTLP ->
            Attempt("otlptracegrpc", "otlp exporter", OTLPOptions(cfg),
                    "info", "otelx.exporter.otlp.enabled", hasLogger, ctorErr)
      [] cfg.Exporter = ExporterCloudTrace ->
            Attempt("cloudtrace", "otlp exporter",
                    <<"WithProjectID", "WithContext", "WithTimeout">>,
                    "info", "otelx.exporter.cloudtrace.enabled", hasLogger, ctorErr)
      [] OTHER ->
            [exporter |-> NoExporter, ctor |-> "none", logs |-> <<>>,
             err |-> ErrUnsupported(cfg.Exporter)]

\* buildExporter; ctorErr is what the selected constructor returns.
buildExporter(cfg, hasLogger, ctorErr) ==
    CASE cfg.Exporter \in {<<>>, ExporterStdout} ->
            Attempt("stdouttrace", "stdout exporter", <<"WithPrettyPrint">>,
                    "debug", "otelx.exporter.stdout.enabled", hasLogger, ctorErr)
      [] cfg.Exporter = ExporterOTLP ->
            Attempt("otlptracegrpc", "otlp exporter", OTLPOptions(cfg),
                    "info", "otelx.exporter.otlp.enabled", hasLogger, ctorErr)
      [] cfg.Exporter = ExporterCloudTrace ->
            Attempt("cloudtrace", "cloudtrace exporter",
                    <<"WithProjectID", "WithContext", "WithTimeout">>,
                    "info", "otelx.exporter.cloudtrace.enabled", hasLogger, ctorErr)
      [] OTHER ->
            [exporter |-> NoExporter, ctor |-> "none", logs |-> <<>>,
             err |-> ErrUnsupported(cfg.Exporter)]

\* ----------------------------------------------------------------- sampler

ResolveRatio_zeroIsUnset(cfg) ==
    IF cfg.SamplingRatio.present /\ cfg.SamplingRatio # Zero
    THEN cfg.SamplingRatio
    ELSE DefaultSamplingRatio

\* sampler := DefaultSamplingRatio; if cfg.SamplingRatio != nil { sampler = *cfg.SamplingRatio }
ResolveRatio(cfg) ==
    IF cfg.SamplingRatio.present THEN cfg.SamplingRatio ELSE DefaultSamplingRatio

\* sdktrace.TraceIDRatioBased(fraction): AlwaysSample at 1 and above, a
\* fraction of 0 and below samples no identifier, and between the two the
\* identifiers below fraction * range are sampled.
TraceIDRatioBased(fraction, id) ==
    IF ~Less(fraction, One) THEN TRUE
    ELSE IF ~Less(Zero, fraction) THEN FALSE
    ELSE id * fraction.den < fraction.num * (MaxTraceID + 1)

ParentBased_rootOnly(root, parent) == root

\* sdktrace.ParentBased(root): a span with a parent takes the parent's
\* sampled flag, a span without one asks the root sampler.
ParentBased(root, parent) ==
    CASE parent = "none"      -> root
      [] parent = "sampled"   -> TRUE
      [] parent = "unsampled" -> FALSE

\* ---------------------------------------------------------------- resource

\* The resource options of Setup, in order; attrs is the attribute list.
ResourceOpts(cfg, o) ==
    <<"WithSchemaURL", "WithFromEnv", "WithProcess", "WithOS", "WithHost",
      "WithTelemetrySDK", "WithAttributes">> \o o.resourceOpts

\* attrs: the fixed identity attributes, then the non-blank extra attributes.
ResourceAttributes(cfg) ==
    {<<<<"service.name">>, cfg.ServiceName>>}
    \cup (IF cfg.ServiceVersion # <<>>
          THEN {<<<<"service.version">>, cfg.ServiceVersion>>} ELSE {})
    \cup (IF cfg.Environment # <<>>
          THEN {<<<<"deployment.environment.name">>, cfg.Environment>>} ELSE {})
    \cup {kv \in cfg.ResourceAttrs : TrimSpace(kv[1]) # <<>>}

NoResource == [opts |-> <<>>, attrs |-> {}]

\* ------------------------------------------------------------------ handle

NilProvider == [nil |-> TRUE, TP |-> 0, Propagator |-> "nil"]

\* ------------------------------------------------------------------ inputs

\* A run of n whitespace characters, spaces and tabs alternating.
Pad(n) == [i \in 1..n |-> IF i % 2 = 1 THEN " " ELSE "\t"]

\* A text with up to MaxPad whitespace characters on either side.
Forms(core) == {Pad(l) \o core \o Pad(r) : l \in 0..MaxPad, r \in 0..MaxPad}

Svc     == <<"s","v","c">>
Prj     == <<"p","r","j">>
Jaeger  == <<"j","a","e","g","e","r">>
OTLPUp  == <<"O","T","L","P">>
CloudUp == <<"C","l","o","u","d","T","r","a","c","e">>

\* The remaining fields of a Config, all unset or all set.
AuxUnset ==
    [ServiceVersion |-> <<>>, Environment |-> <<>>, Endpoint |-> <<>>,
     Insecure |-> FALSE, Headers |-> {}, ResourceAttrs |-> {}]
AuxSet ==
    [ServiceVersion |-> Pad(MaxPad) \o <<"1",".","0">>,
     Environment    |-> <<"d","e","v">> \o Pad(MaxPad),
     Endpoint       |-> Pad(MaxPad) \o <<"h",":","1">> \o Pad(MaxPad),
     Insecure       |-> TRUE,
     Headers        |-> {<<"authorization", "token">>},
     ResourceAttrs  |-> {<<Pad(MaxPad + 1), <<"x">>>>, <<<<"f","o","o">>, <<"b","a","r">>>>}]

MakeConfig(name, exporter, ratio, project, aux) ==
    [ServiceName |-> name, ServiceVersion |-> aux.ServiceVersion,
     Environment |-> aux.Environment, Exporter |-> exporter,
     SamplingRatio |-> ratio, Endpoint |-> aux.Endpoint,
     Insecure |-> aux.Insecure, GCPProjectID |-> project,
     Headers |-> aux.Headers, ResourceAttrs |-> aux.ResourceAttrs]

\* The configurations of the pipeline specification.
PipelineConfigs ==
    {MakeConfig(name, exporter, ratio, project, AuxSet) :
        name \in {<<>>, Pad(MaxPad) \o Svc},
        exporter \in {<<>>, ExporterStdout, ExporterOTLP, ExporterCloudTrace,
                      Pad(MaxPad) \o OTLPUp \o Pad(MaxPad), Jaeger},
        ratio \in {NoRatio, Zero, Float64(3, 2)},
        project \in {<<>>, Prj}}

\* The configurations of the configuration specification.
WideConfigs ==
    {MakeConfig(name, exporter, ratio, project, aux) :
        name \in Forms(<<>>) \cup Forms(Svc),
        exporter \in {<<>>, ExporterStdout, ExporterOTLP, ExporterCloudTrace,
                      CloudUp, Jaeger} \cup Forms(OTLPUp),
        ratio \in {NoRatio, Float64(-1, 10), Zero, DefaultSamplingRatio,
                   Float64(1, 2), One, Float64(3, 2)},
        project \in Forms(<<>>) \cup {Pad(MaxPad) \o Prj},
        aux \in {AuxUnset, AuxSet}}

\* All tuples over S of length at most n.
SeqUpTo(S, n) == UNION {[1..k -> S] : k \in 0..n}

PipelineOptions ==
    SeqUpTo({NilOption, WithGlobal, WithPropagator("Baggage"),
             WithResourceOptions(<<"WithContainer">>), withSamplerHook("hook")},
            MaxOpts)

ConfigOptions == {<<WithGlobal, withSamplerHook("hook")>>}

\* What the collaborators may return.
ErrConstruct == NewError(<<"context deadline exceeded">>)
ErrDetect    == NewError(<<"partial resource">>)
ErrExporterShutdown == NewError(<<"exporter: flush failed">>)
ErrContext   == NewError(<<"context canceled">>)

\* ------------------------------------------------------------------- state

VARIABLES
    pc,            \* where each Setup invocation stands
    arg,           \* the caller's Config value
    logger,        \* whether the caller passed a logger
    opts,          \* the caller's option list
    cfg,           \* Setup's cfg
    options,       \* Setup's options
    exporter,      \* Setup's exporter
    sampler,       \* Setup's sampler
    res,           \* Setup's res
    tp,            \* Setup's tp: the provider's identity, 0 for none
    prop,          \* Setup's prop
    handle,        \* the *Provider Setup returned
    err,           \* the error Setup returned
    stage,         \* the statement Setup returned from
    effects,       \* what each invocation did to the outside, in order
    expState,      \* the exporter object: none, live, shutdown
    tpState,       \* the tracer provider object: none, running, shutdown
    globalTP,      \* otel's process-wide tracer provider
    globalProp,    \* otel's process-wide propagator
    shutCalls,     \* Shutdown calls made on each handle
    lastShut,      \* the last Shutdown call on each handle
    handled,       \* errors given to otel.Handle
    ctx,           \* the caller's context of each Setup invocation
    writeLog,      \* the writes of the process-wide defaults, in order
    spans          \* the last span started on each provider

vars == <<pc, arg, logger, opts, cfg, options, exporter, sampler, res, tp, prop,
          handle, err, stage, effects, expState, tpState, globalTP, globalProp,
          shutCalls, lastShut, handled, ctx, writeLog, spans>>

inputs   == <<arg, logger, opts, ctx>>
locals   == <<cfg, options, exporter, sampler, res, tp, prop>>
returned == <<handle, err, stage>>
objects  == <<expState, tpState>>
globals  == <<globalTP, globalProp, writeLog>>
shutdown == <<shutCalls, lastShut, handled>>

NoEffects ==
    [mutators |-> 0, ctors |-> <<>>, logs |-> <<>>, hooks |-> <<>>,
     detects |-> 0, globalWrites |-> <<>>]

NoShutdown ==
    [background |-> TRUE, expErr |-> Nil, ctxErr |-> Nil, result |-> Nil,
     ran |-> FALSE]

ZeroConfig == MakeConfig(<<>>, <<>>, NoRatio, <<>>, AuxUnset)

\* context.Background(): never done.  blocks says that the network and the
\* detectors never answer on their own during this invocation; doneAt is the
\* statement Setup stood at when the context ended.
Background == [background |-> TRUE, blocks |-> FALSE, done |-> FALSE, doneAt |-> "none"]

\* A context with a cancel function or a deadline.
Cancellable(blocks) ==
    [background |-> FALSE, blocks |-> blocks, done |-> FALSE, doneAt |-> "none"]

NoSpan == [started |-> FALSE, parent |-> "none", id |-> 0, recording |-> FALSE]

Init ==
    /\ pc = [c \in Calls |-> "idle"]
    /\ arg = [c \in Calls |-> ZeroConfig]
    /\ logger = [c \in Calls |-> FALSE]
    /\ opts = [c \in Calls |-> <<>>]
    /\ cfg = [c \in Calls |-> ZeroConfig]
    /\ options = [c \in Calls |-> ZeroOptions]
    /\ exporter = [c \in Calls |-> NoExporter]
    /\ sampler = [c \in Calls |-> NoRatio]
    /\ res = [c \in Calls |-> NoResource]
    /\ tp = [c \in Calls |-> 0]
    /\ prop = [c \in Calls |-> "nil"]
    /\ handle = [c \in Calls |-> NilProvider]
    /\ err = [c \in Calls |-> Nil]
    /\ stage = [c \in Calls |-> "none"]
    /\ effects = [c \in Calls |-> NoEffects]
    /\ expState = [c \in Calls |-> "none"]
    /\ tpState = [c \in Calls |-> "none"]
    /\ globalTP = 0
    /\ globalProp = "noop"
    /\ shutCalls = [c \in Calls |-> 0]
    /\ lastShut = [c \in Calls |-> NoShutdown]
    /\ handled = {}
    /\ ctx = [c \in Calls |-> Background]
    /\ writeLog = <<>>
    /\ spans = [c \in Calls |-> NoSpan]

\* ------------------------------------------------------------------- Setup

ReturnError_keepsHandle(c, e, at) ==
    /\ handle' = [handle EXCEPT ![c] =
                     [nil |-> FALSE, TP |-> tp[c], Propagator |-> prop[c]]]
    /\ err' = [err EXCEPT ![c] = e]
    /\ stage' = [stage EXCEPT ![c] = at]
    /\ pc' = [pc EXCEPT ![c] = "done"]

\* return nil, e
ReturnError(c, e, at) ==
    /\ handle' = [handle EXCEPT ![c] = NilProvider]
    /\ err' = [err EXCEPT ![c] = e]
    /\ stage' = [stage EXCEPT ![c] = at]
    /\ pc' = [pc EXCEPT ![c] = "done"]

\* The caller invokes Setup(ctx, cfg, logger, opts...).  Invocations are
\* numbered in the order they start; unless overlap is allowed, an invocation
\* starts only while no other has.
SetupCall(c, cfgs, loggers, optLists, ctxs, overlap) ==
    /\ pc[c] = "idle"
    /\ \A d \in Calls : d < c => pc[d] # "idle"
    /\ overlap \/ \A d \in Calls \ {c} : pc[d] = "idle"
    /\ \E a \in cfgs, l \in loggers, os \in optLists, x \in ctxs :
          /\ arg' = [arg EXCEPT ![c] = a]
          /\ ctx' = [ctx EXCEPT ![c] = x]
          /\ logger' = [logger EXCEPT ![c] = l]
          /\ opts' = [opts EXCEPT ![c] = os]
    /\ pc' = [pc EXCEPT ![c] = "validate"]
    /\ UNCHANGED <<locals, returned, effects, objects, globals, shutdown, spans>>

SetupValidate_optionsFirst(c) ==
    /\ pc[c] = "validate"
    /\ cfg' = [cfg EXCEPT ![c] = sanitize(arg[c])]
    /\ options' = [options EXCEPT ![c] = ApplyOptions(opts[c], ZeroOptions)]
    /\ effects' = [effects EXCEPT ![c].mutators = @ + Invoked(opts[c])]
    /\ IF ~validate(cfg'[c]).nil
       THEN ReturnError(c, validate(cfg'[c]), "validate")
       ELSE /\ pc' = [pc EXCEPT ![c] = "options"]
            /\ UNCHANGED returned
    /\ UNCHANGED <<inputs, exporter, sampler, res, tp, prop,
                   objects, globals, shutdown, spans>>

\* cfg = cfg.sanitize(); if err := cfg.validate(); err != nil { return nil, err }
SetupValidate(c) ==
    /\ pc[c] = "validate"
    /\ cfg' = [cfg EXCEPT ![c] = sanitize(arg[c])]
    /\ IF ~validate(cfg'[c]).nil
       THEN ReturnError(c, validate(cfg'[c]), "validate")
       ELSE /\ pc' = [pc EXCEPT ![c] = "options"]
            /\ UNCHANGED returned
    /\ UNCHANGED <<inputs, options, exporter, sampler, res, tp, prop, effects,
                   objects, globals, shutdown, spans>>

\* options := &setupOptions{}; for _, opt := range opts { ... }
SetupOptions(c) ==
    /\ pc[c] = "options"
    /\ options' = [options EXCEPT ![c] = ApplyOptions(opts[c], ZeroOptions)]
    /\ effects' = [effects EXCEPT ![c].mutators = @ + Invoked(opts[c])]
    /\ pc' = [pc EXCEPT ![c] = "exporter"]
    /\ UNCHANGED <<inputs, cfg, exporter, sampler, res, tp, prop, returned,
                   objects, globals, shutdown, spans>>

\* The collaborators that may wait on the network or on a detector: the OTLP
\* and Cloud Trace constructors and resource.New.  stdouttrace.New only builds
\* an encoder.
MayBlock(step, selector) ==
    \/ step = "resource"
    \/ step = "exporter" /\ selector \in {ExporterOTLP, ExporterCloudTrace}

TakesContext_otlpDetached(step, selector) ==
    \/ step = "resource"
    \/ step = "exporter" /\ selector = ExporterCloudTrace

\* The collaborators Setup hands its ctx to: otlptracegrpc.New(ctx, ...),
\* cloudtrace.WithContext(ctx) and resource.New(ctx, ...).  stdouttrace.New
\* has no context parameter.
TakesContext(step, selector) ==
    \/ step = "resource"
    \/ step = "exporter" /\ selector \in {ExporterOTLP, ExporterCloudTrace}

\* cloudtrace.WithTimeout(10 * time.Second) bounds the Cloud Trace constructor
\* whatever the context does.
OwnTimeout(step, selector) == step = "exporter" /\ selector = ExporterCloudTrace

\* Whether the collaborator called at this step hands control back to Setup.
CollaboratorReturns(c, step) ==
    \/ ~ctx[c].blocks
    \/ ~MayBlock(step, cfg[c].Exporter)
    \/ TakesContext(step, cfg[c].Exporter) /\ ctx[c].done
    \/ OwnTimeout(step, cfg[c].Exporter)

\* What the collaborator hands back: a collaborator whose work never
\* completes returns only its error; any other may succeed or fail, whether
\* or not the context has ended meanwhile.
CollaboratorOutcomes(c, step, e) ==
    IF ctx[c].blocks /\ MayBlock(step, cfg[c].Exporter) THEN {e} ELSE {Nil, e}

\* exporter, err := buildExporter(ctx, cfg, logger); if err != nil { return nil, err }
SetupExporter(c) ==
    /\ pc[c] = "exporter"
    /\ CollaboratorReturns(c, "exporter")
    /\ \E ctorErr \in CollaboratorOutcomes(c, "exporter", ErrConstruct) :
          LET r == buildExporter(cfg[c], logger[c], ctorErr) IN
          /\ effects' = [effects EXCEPT ![c].ctors = @ \o <<r.ctor>>,
                                        ![c].logs = @ \o r.logs]
          /\ exporter' = [exporter EXCEPT ![c] = r.exporter]
          /\ IF ~r.err.nil
             THEN /\ ReturnError(c, r.err, "exporter")
                  /\ UNCHANGED expState
             ELSE /\ expState' = [expState EXCEPT ![c] = "live"]
                  /\ pc' = [pc EXCEPT ![c] = "sampler"]
                  /\ UNCHANGED returned
    /\ UNCHANGED <<inputs, cfg, options, sampler, res, tp, prop, tpState,
                   globals, shutdown, spans>>

SetupSampler_hookBeforeOverride(c) ==
    /\ pc[c] = "sampler"
    /\ sampler' = [sampler EXCEPT ![c] = ResolveRatio(cfg[c])]
    /\ effects' = [effects EXCEPT ![c].hooks =
                      IF options[c].samplerHook # "nil"
                      THEN @ \o <<[hook |-> options[c].samplerHook,
                                   ratio |-> DefaultSamplingRatio]>>
                      ELSE @]
    /\ pc' = [pc EXCEPT ![c] = "resource"]
    /\ UNCHANGED <<inputs, cfg, options, exporter, res, tp, prop, returned,
                   objects, globals, shutdown, spans>>

\* sampler := ...; if options.samplerHook != nil { options.samplerHook(sampler) }
SetupSampler(c) ==
    /\ pc[c] = "sampler"
    /\ sampler' = [sampler EXCEPT ![c] = ResolveRatio(cfg[c])]
    /\ effects' = [effects EXCEPT ![c].hooks =
                      IF options[c].samplerHook # "nil"
                      THEN @ \o <<[hook |-> options[c].samplerHook,
                                   ratio |-> sampler'[c]]>>
                      ELSE @]
    /\ pc' = [pc EXCEPT ![c] = "resource"]
    /\ UNCHANGED <<inputs, cfg, options, exporter, res, tp, prop, returned,
                   objects, globals, shutdown, spans>>

\* res, err := resource.New(ctx, resourceOpts...); on an error Setup returns
\* the wrapped error at once.
SetupResource(c) ==
    /\ pc[c] = "resource"
    /\ CollaboratorReturns(c, "resource")
    /\ effects' = [effects EXCEPT ![c].detects = @ + 1]
    /\ \E detErr \in CollaboratorOutcomes(c, "resource", ErrDetect) :
          IF ~detErr.nil
          THEN /\ ReturnError(c, Wrap(<<"otelx: build resource: ">>, detErr),
                              "resource")
               /\ UNCHANGED res
          ELSE /\ res' = [res EXCEPT ![c] =
                             [opts |-> ResourceOpts(cfg[c], options[c]),
                              attrs |-> ResourceAttributes(cfg[c])]]
               /\ pc' = [pc EXCEPT ![c] = "assemble"]
               /\ UNCHANGED returned
    /\ UNCHANGED <<inputs, cfg, options, exporter, sampler, tp, prop, objects,
                   globals, shutdown, spans>>

SetupAssemble_alwaysGlobal(c) ==
    /\ pc[c] = "assemble"
    /\ tp' = [tp EXCEPT ![c] = c]
    /\ tpState' = [tpState EXCEPT ![c] = "running"]
    /\ prop' = [prop EXCEPT ![c] = IF options[c].propagator = "nil"
                                   THEN DefaultPropagator
                                   ELSE options[c].propagator]
    /\ pc' = [pc EXCEPT ![c] = "setTP"]
    /\ UNCHANGED <<inputs, cfg, options, exporter, sampler, res, returned,
                   effects, expState, globals, shutdown, spans>>

\* tp := sdktrace.NewTracerProvider(...); prop := options.propagator, or the
\* default composite when that is nil.
SetupAssemble(c) ==
    /\ pc[c] = "assemble"
    /\ tp' = [tp EXCEPT ![c] = c]
    /\ tpState' = [tpState EXCEPT ![c] = "running"]
    /\ prop' = [prop EXCEPT ![c] = IF options[c].propagator = "nil"
                                   THEN DefaultPropagator
                                   ELSE options[c].propagator]
    /\ pc' = [pc EXCEPT ![c] = IF options[c].global THEN "setTP" ELSE "return"]
    /\ UNCHANGED <<inputs, cfg, options, exporter, sampler, res, returned,
                   effects, expState, globals, shutdown, spans>>

SetupSetTracerProvider_firstWins(c) ==
    /\ pc[c] = "setTP"
    /\ globalTP' = IF globalTP = 0 THEN tp[c] ELSE globalTP
    /\ writeLog' = Append(writeLog, [by |-> c, what |-> "TracerProvider"])
    /\ effects' = [effects EXCEPT ![c].globalWrites = @ \o <<"TracerProvider">>]
    /\ pc' = [pc EXCEPT ![c] = "setProp"]
    /\ UNCHANGED <<inputs, locals, returned, objects, globalProp, shutdown, spans>>

\* otel.SetTracerProvider(tp)
SetupSetTracerProvider(c) ==
    /\ pc[c] = "setTP"
    /\ globalTP' = tp[c]
    /\ writeLog' = Append(writeLog, [by |-> c, what |-> "TracerProvider"])
    /\ effects' = [effects EXCEPT ![c].globalWrites = @ \o <<"TracerProvider">>]
    /\ pc' = [pc EXCEPT ![c] = "setProp"]
    /\ UNCHANGED <<inputs, locals, returned, objects, globalProp, shutdown, spans>>

SetupSetTextMapPropagator_default(c) ==
    /\ pc[c] = "setProp"
    /\ globalProp' = DefaultPropagator
    /\ writeLog' = Append(writeLog, [by |-> c, what |-> "TextMapPropagator"])
    /\ effects' = [effects EXCEPT ![c].globalWrites = @ \o <<"TextMapPropagator">>]
    /\ pc' = [pc EXCEPT ![c] = "return"]
    /\ UNCHANGED <<inputs, locals, returned, objects, globalTP, shutdown, spans>>

\* otel.SetTextMapPropagator(prop)
SetupSetTextMapPropagator(c) ==
    /\ pc[c] = "setProp"
    /\ globalProp' = prop[c]
    /\ writeLog' = Append(writeLog, [by |-> c, what |-> "TextMapPropagator"])
    /\ effects' = [effects EXCEPT ![c].globalWrites = @ \o <<"TextMapPropagator">>]
    /\ pc' = [pc EXCEPT ![c] = "return"]
    /\ UNCHANGED <<inputs, locals, returned, objects, globalTP, shutdown, spans>>

\* return &Provider{TP: tp, Propagator: prop, shutdown: ...}, nil
SetupReturn(c) ==
    /\ pc[c] = "return"
    /\ handle' = [handle EXCEPT ![c] =
                     [nil |-> FALSE, TP |-> tp[c], Propagator |-> prop[c]]]
    /\ err' = [err EXCEPT ![c] = Nil]
    /\ stage' = [stage EXCEPT ![c] = "return"]
    /\ pc' = [pc EXCEPT ![c] = "done"]
    /\ UNCHANGED <<inputs, locals, effects, objects, globals, shutdown, spans>>

\* ---------------------------------------------------------------- Shutdown

\* The shutdown closure of the handle: return tp.Shutdown(ctx).  The SDK's
\* provider shuts its batch span processor down once; the processor calls the
\* exporter's Shutdown and gives that error to otel.Handle, and returns
\* ctx.Err() when the context ends before the flush does.  A provider that is
\* already shut down returns nil.
ShutdownClosure(state, expErr, ctxErr) ==
    IF state # "running"
    THEN [result |-> Nil, ran |-> FALSE, handled |-> {}]
    ELSE [result |-> ctxErr, ran |-> TRUE,
          handled |-> IF expErr.nil THEN {} ELSE {expErr}]

\* What ctx.Err() can be while Shutdown runs: context.Background() never ends.
ContextOutcomes(background) == IF background THEN {Nil} ELSE {Nil, ErrContext}

\* What the exporter's own Shutdown can return: the console exporter has
\* nothing to flush and fails only with the context's error; the network
\* exporters may fail to flush.
ExporterShutdownOutcomes(kind, ctxErr) ==
    IF kind = "stdouttrace" THEN {Nil, ctxErr} ELSE {Nil, ErrExporterShutdown}

ProviderShutdown_resetGlobals(c) ==
    /\ pc[c] = "done"
    /\ shutCalls[c] < MaxShutdowns
    /\ shutCalls' = [shutCalls EXCEPT ![c] = @ + 1]
    /\ \E background \in BOOLEAN :
       \E ctxErr \in ContextOutcomes(background) :
       \E expErr \in ExporterShutdownOutcomes(exporter[c].kind, ctxErr) :
          IF handle[c].nil
          THEN /\ lastShut' = [lastShut EXCEPT ![c] =
                                  [background |-> background,
                                   expErr |-> Nil, ctxErr |-> Nil,
                                   result |-> Nil, ran |-> FALSE]]
               /\ UNCHANGED <<objects, handled>>
          ELSE LET r == ShutdownClosure(tpState[c], expErr, ctxErr) IN
               /\ lastShut' = [lastShut EXCEPT ![c] =
                                  [background |-> background,
                                   expErr |-> IF r.ran THEN expErr ELSE Nil,
                                   ctxErr |-> IF r.ran THEN ctxErr ELSE Nil,
                                   result |-> r.result, ran |-> r.ran]]
               /\ tpState' = [tpState EXCEPT ![c] = "shutdown"]
               /\ expState' = [expState EXCEPT ![c] =
                                  IF r.ran THEN "shutdown" ELSE @]
               /\ handled' = handled \cup r.handled
    /\ globalTP' = 0
    /\ globalProp' = "noop"
    /\ UNCHANGED <<pc, inputs, locals, returned, effects, writeLog, spans>>

\* Provider.Shutdown(ctx)
ProviderShutdown(c) ==
    /\ pc[c] = "done"
    /\ shutCalls[c] < MaxShutdowns
    /\ shutCalls' = [shutCalls EXCEPT ![c] = @ + 1]
    /\ \E background \in BOOLEAN :
       \E ctxErr \in ContextOutcomes(background) :
       \E expErr \in ExporterShutdownOutcomes(exporter[c].kind, ctxErr) :
          IF handle[c].nil
          THEN /\ lastShut' = [lastShut EXCEPT ![c] =
                                  [background |-> background,
                                   expErr |-> Nil, ctxErr |-> Nil,
                                   result |-> Nil, ran |-> FALSE]]
               /\ UNCHANGED <<objects, handled>>
          ELSE LET r == ShutdownClosure(tpState[c], expErr, ctxErr) IN
               /\ lastShut' = [lastShut EXCEPT ![c] =
                                  [background |-> background,
                                   expErr |-> IF r.ran THEN expErr ELSE Nil,
                                   ctxErr |-> IF r.ran THEN ctxErr ELSE Nil,
                                   result |-> r.result, ran |-> r.ran]]
               /\ tpState' = [tpState EXCEPT ![c] = "shutdown"]
               /\ expState' = [expState EXCEPT ![c] =
                                  IF r.ran THEN "shutdown" ELSE @]
               /\ handled' = handled \cup r.handled
    /\ UNCHANGED <<pc, inputs, locals, returned, effects, globals, spans>>

\* ------------------------------------------------------------ specifications

\* tracer.Start(ctx, name) on the provider of a returned handle: the span
\* context in ctx is the parent, the sampler of the provider decides.
StartSpan(c) ==
    /\ pc[c] = "done"
    /\ ~handle[c].nil
    /\ tpState[c] = "running"
    /\ \E parent \in {"none", "sampled", "unsampled"}, id \in 0..MaxTraceID :
          spans' = [spans EXCEPT ![c] =
                       [started |-> TRUE, parent |-> parent, id |-> id,
                        recording |->
                            ParentBased(TraceIDRatioBased(sampler[c], id), parent)]]
    /\ UNCHANGED <<pc, inputs, locals, returned, effects, objects, globals,
                   shutdown>>

\* The caller cancels the context, or its deadline passes, while Setup runs.
ContextEnds(c) ==
    /\ pc[c] \notin {"idle", "done"}
    /\ ~ctx[c].background
    /\ ~ctx[c].done
    /\ ctx' = [ctx EXCEPT ![c] = [@ EXCEPT !.done = TRUE, !.doneAt = pc[c]]]
    /\ UNCHANGED <<pc, arg, logger, opts, locals, returned, effects, objects,
                   globals, shutdown, spans>>

SetupSteps(c) ==
    \/ SetupValidate(c)
    \/ SetupOptions(c)
    \/ SetupExporter(c)
    \/ SetupSampler(c)
    \/ SetupResource(c)
    \/ SetupAssemble(c)
    \/ SetupSetTracerProvider(c)
    \/ SetupSetTextMapPropagator(c)
    \/ SetupReturn(c)

\* One Setup invocation at a time over the pipeline configurations, every
\* option list and either logger, followed by Shutdown calls on its handle.
Next ==
    \E c \in Calls :
        \/ SetupCall(c, PipelineConfigs, BOOLEAN, PipelineOptions, {Background}, FALSE)
        \/ SetupSteps(c)
        \/ ProviderShutdown(c)

Spec == Init /\ [][Next]_vars

\* One Setup invocation over the wide range of configurations.
NextConfig ==
    \E c \in Calls :
        \/ SetupCall(c, WideConfigs, {FALSE}, ConfigOptions, {Background}, FALSE)
        \/ SetupSteps(c)

SpecConfig == Init /\ [][NextConfig]_vars

\* Every option a caller can build: nil, the flag, propagator overrides (nil
\* among them), directive lists and hooks.
AllOptions ==
    {NilOption, WithGlobal,
     WithPropagator("Baggage"), WithPropagator("TraceContext"), WithPropagator("nil"),
     WithResourceOptions(<<"WithContainer">>),
     WithResourceOptions(<<"WithOS", "WithProcess">>),
     withSamplerHook("hook"), withSamplerHook("hook2")}

\* One Setup invocation of a valid configuration over every option list.
NextOptions ==
    \E c \in {1} :
        \/ SetupCall(c, {MakeConfig(Svc, <<>>, NoRatio, <<>>, AuxSet)}, {FALSE},
                     SeqUpTo(AllOptions, MaxOpts), {Background}, FALSE)
        \/ SetupSteps(c)

SpecOptions == Init /\ [][NextOptions]_vars

\* The option lists of the overlapping runs: no registration, registration
\* of the default propagator, registration of an override.
RaceOptions ==
    {<<>>, <<WithGlobal>>, <<WithGlobal, WithPropagator("Baggage")>>}

\* The configurations of the overlapping runs: one that validates and one
\* without a service name.
RaceConfigs ==
    {MakeConfig(name, <<>>, NoRatio, <<>>, AuxSet) : name \in {Svc, <<>>}}

\* Setup invocations on several goroutines: their statements interleave.
NextRace ==
    \E c \in Calls :
        \/ SetupCall(c, RaceConfigs, {FALSE}, RaceOptions, {Background}, TRUE)
        \/ SetupSteps(c)

SpecRace == Init /\ [][NextRace]_vars

\* The configurations of the sampling runs: every kind of ratio.
TraceConfigs ==
    {MakeConfig(Svc, <<>>, r, <<>>, AuxSet) :
        r \in {NoRatio, Zero, Float64(1, 2), One}}

\* One Setup invocation, then spans started on its provider.
NextTrace ==
    \E c \in {1} :
        \/ SetupCall(c, TraceConfigs, {FALSE}, {<<>>, <<WithGlobal>>},
                     {Background}, FALSE)
        \/ SetupSteps(c)
        \/ StartSpan(c)

SpecTrace == Init /\ [][NextTrace]_vars

\* The configurations of the cancellation runs: one per exporter variant.
LiveConfigs ==
    {MakeConfig(Svc, e, NoRatio, Prj, AuxSet) :
        e \in {<<>>, ExporterOTLP, ExporterCloudTrace}}

\* The contexts a caller may pass: background or cancellable, with the
\* network answering or not.
LiveContexts ==
    {Background, [Background EXCEPT !.blocks = TRUE],
     Cancellable(FALSE), Cancellable(TRUE)}

\* One Setup invocation whose context may end at any statement.
NextLive ==
    \E c \in {1} :
        \/ SetupCall(c, LiveConfigs, {FALSE}, {<<>>, <<WithGlobal>>},
                     LiveContexts, FALSE)
        \/ SetupSteps(c)
        \/ ContextEnds(c)

\* Setup is straight-line code on the caller's goroutine: whenever its next
\* statement can complete, it does.  Nothing obliges the caller to cancel.
SpecLive == Init /\ [][NextLive]_vars /\ WF_vars(SetupSteps(1))

\* ------------------------------------------------------------------ claims

Supported == {<<>>, ExporterStdout, ExporterOTLP, ExporterCloudTrace}

\* The invocation has passed the sanitize-and-validate statement.
Validated(c) == pc[c] \notin {"idle", "validate"}

\* The invocation has passed the sampler statement.
Sampled(c) ==
    \/ pc[c] \in {"resource", "assemble", "setTP", "setProp", "return"}
    \/ pc[c] = "done" /\ stage[c] \in {"resource", "return"}

\* C1: Shutdown on a handle Setup returned shuts the exporter and the provider
\* down and returns one error that keeps both causes: nil only if both steps
\* succeed, and referencing both failures when both fail.
C1_ShutdownAggregatesBothCauses ==
    \A c \in Calls :
        (pc[c] = "done" /\ ~handle[c].nil /\ lastShut[c].ran) =>
            /\ expState[c] = "shutdown"
            /\ tpState[c] = "shutdown"
            /\ lastShut[c].result.nil
                  <=> (lastShut[c].expErr.nil /\ lastShut[c].ctxErr.nil)
            /\ (~lastShut[c].expErr.nil /\ ~lastShut[c].ctxErr.nil) =>
                  /\ Is(lastShut[c].result, lastShut[c].expErr)
                  /\ Is(lastShut[c].result, lastShut[c].ctxErr)

\* C2: no Setup call returns an error while the exporter it constructed is
\* still live: the exporter is released before the error is returned.
C2_ExporterReleasedOnError ==
    \A c \in Calls :
        (pc[c] = "done" /\ ~err[c].nil) => expState[c] # "live"

\* The four validation rules, on the caller's configuration.
Rule1(c) == TrimSpace(arg[c].ServiceName) = <<>>
Rule2(c) == cfg[c].Exporter \notin Supported
Rule3(c) ==
    /\ arg[c].SamplingRatio.present
    /\ (Less(arg[c].SamplingRatio, Zero) \/ Less(One, arg[c].SamplingRatio))
Rule4(c) ==
    /\ cfg[c].Exporter = ExporterCloudTrace
    /\ TrimSpace(arg[c].GCPProjectID) = <<>>

\* The field a validation error names, by the number of the rule.
RuleKeyword(k) ==
    CASE k = 1 -> "serviceName"
      [] k = 2 -> "unsupported exporter"
      [] k = 3 -> "samplingRatio"
      [] k = 4 -> "gcpProjectId"

\* The lowest-numbered violated rule, 0 when none is violated.
FirstViolated(c) ==
    IF Rule1(c) THEN 1 ELSE IF Rule2(c) THEN 2
    ELSE IF Rule3(c) THEN 3 ELSE IF Rule4(c) THEN 4 ELSE 0

\* C3: validation applies its four rules in order and the first violated rule
\* decides the error: a configuration violating a rule makes Setup fail with
\* the error of the lowest-numbered violated rule, and a configuration
\* violating none passes validation.
C3_FirstViolatedRuleWins ==
    \A c \in Calls :
        Validated(c) =>
            IF FirstViolated(c) = 0
            THEN stage[c] # "validate"
            ELSE /\ pc[c] = "done"
                 /\ stage[c] = "validate"
                 /\ handle[c].nil
                 /\ ~err[c].nil
                 /\ Contains(err[c].text, RuleKeyword(FirstViolated(c)))
                 /\ \A k \in 1..4 :
                       k # FirstViolated(c) => ~Contains(err[c].text, RuleKeyword(k))

C3_Witness ==
    \E c \in Calls :
        /\ pc[c] = "done"
        /\ stage[c] = "validate"
        /\ ~Rule1(c) /\ Rule2(c) /\ Rule3(c)
        /\ Contains(err[c].text, "unsupported exporter")

\* C4: a Setup call whose configuration fails validation returns before any
\* side effect: no exporter is constructed, no resource detection runs, no
\* option mutator or sampler hook is invoked, no logger call is made and no
\* process-wide global is written.
C4_ValidationErrorBeforeAnyEffect ==
    \A c \in Calls :
        (pc[c] = "done" /\ stage[c] = "validate") =>
            /\ effects[c] = NoEffects
            /\ exporter[c] = NoExporter
            /\ expState[c] = "none"
            /\ tpState[c] = "none"
            /\ globalTP # c
            /\ (\A d \in Calls \ {c} : pc[d] = "idle") =>
                  (globalTP = 0 /\ globalProp = "noop")

C4_Witness ==
    \E c \in Calls :
        /\ pc[c] = "done"
        /\ stage[c] = "validate"
        /\ logger[c]
        /\ Invoked(opts[c]) = MaxOpts
        /\ \E i \in 1..Len(opts[c]) : opts[c][i] = WithGlobal
        /\ \E i \in 1..Len(opts[c]) : opts[c][i] = withSamplerHook("hook")

\* The validated-configuration invariant.
ValidConfig(k) ==
    /\ k.ServiceName # <<>>
    /\ k.Exporter \in Supported
    /\ ~k.SamplingRatio.present
          \/ (~Less(k.SamplingRatio, Zero) /\ ~Less(One, k.SamplingRatio))
    /\ k.Exporter = ExporterCloudTrace => k.GCPProjectID # <<>>

C6_SelectorTrimmedAndLowercased ==
    \A c \in Calls :
        Validated(c) =>
            /\ cfg[c].ServiceName = TrimSpace(arg[c].ServiceName)
            /\ cfg[c].ServiceVersion = TrimSpace(arg[c].ServiceVersion)
            /\ cfg[c].Environment = TrimSpace(arg[c].Environment)
            /\ cfg[c].Endpoint = TrimSpace(arg[c].Endpoint)
            /\ cfg[c].GCPProjectID = TrimSpace(arg[c].GCPProjectID)
            /\ cfg[c].Exporter = ToLower(TrimSpace(arg[c].Exporter))
            /\ (/\ ToLower(TrimSpace(arg[c].Exporter)) \in Supported
                /\ ~Rule1(c) /\ ~Rule3(c)
                /\ ToLower(TrimSpace(arg[c].Exporter)) = ExporterCloudTrace
                      => TrimSpace(arg[c].GCPProjectID) # <<>>)
                  => stage[c] # "validate"

\* C7: sanitize is idempotent, field for field, and leaves the caller's
\* Config value as it was.
C7_SanitizeIdempotent ==
    /\ [](\A c \in Calls : Validated(c) => sanitize(cfg[c]) = cfg[c])
    /\ [][\A c \in Calls : pc[c] # "idle" => arg'[c] = arg[c]]_vars

C7_Witness ==
    \E c \in Calls :
        /\ pc[c] = "options"
        /\ cfg[c].ServiceName # arg[c].ServiceName
        /\ cfg[c].Exporter # arg[c].Exporter
        /\ cfg[c].GCPProjectID # arg[c].GCPProjectID

\* C8: the resolved sampling ratio is the configured ratio whenever one is
\* present, an explicit 0 included, and the default 0.1 when it is absent.
C8_ResolvedSamplingRatio ==
    \A c \in Calls :
        Sampled(c) =>
            /\ sampler[c].present
            /\ arg[c].SamplingRatio.present => sampler[c] = arg[c].SamplingRatio
            /\ arg[c].SamplingRatio = Zero => sampler[c] # DefaultSamplingRatio
            /\ ~arg[c].SamplingRatio.present => sampler[c] = Float64(1, 10)

C8_Witness ==
    \E c \in Calls :
        /\ pc[c] = "resource"
        /\ arg[c].SamplingRatio = Zero
        /\ sampler[c] = Zero

\* C9: when Setup with the global-registration option succeeds and no other
\* invocation has written the globals, the process-wide tracer provider and
\* propagator are the ones the returned handle holds, a propagator supplied
\* through WithPropagator included.
C9_GlobalsAreTheHandles ==
    \A c \in Calls :
        (/\ pc[c] = "done"
         /\ err[c].nil
         /\ options[c].global
         /\ \A d \in Calls \ {c} : pc[d] = "idle") =>
            /\ ~handle[c].nil
            /\ globalTP = handle[c].TP
            /\ globalProp = handle[c].Propagator
            /\ options[c].propagator # "nil" => globalProp = options[c].propagator

C9_Witness ==
    \E c \in Calls :
        /\ pc[c] = "done"
        /\ err[c].nil
        /\ options[c].global
        /\ options[c].propagator = "Baggage"
        /\ globalProp = "Baggage"
        /\ globalTP = c

\* The variant a normalized selector selects: its constructor and the prefix
\* of its construction error.
VariantOf(selector) ==
    CASE selector \in {<<>>, ExporterStdout} ->
            [ctor |-> "stdouttrace", prefix |-> "stdout exporter"]
      [] selector = ExporterOTLP ->
            [ctor |-> "otlptracegrpc", prefix |-> "otlp exporter"]
      [] selector = ExporterCloudTrace ->
            [ctor |-> "cloudtrace", prefix |-> "cloudtrace exporter"]

\* C10: the factory dispatches on the normalized selector, a construction
\* failure is returned wrapped with the prefix of exactly the selected variant
\* with the cause preserved, and Setup returns that error unchanged.
C10_ConstructionErrorNamesVariant ==
    \A c \in Calls :
        /\ effects[c].ctors # <<>> =>
              effects[c].ctors = <<VariantOf(cfg[c].Exporter).ctor>>
        /\ expState[c] # "none" =>
              exporter[c].kind = VariantOf(cfg[c].Exporter).ctor
        /\ stage[c] = "exporter" =>
              /\ pc[c] = "done"
              /\ handle[c].nil
              /\ err[c].text = <<"otelx: create ",
                                 VariantOf(cfg[c].Exporter).prefix, ": ">>
                               \o ErrConstruct.text
              /\ \A v \in {"stdout exporter", "otlp exporter", "cloudtrace exporter"} :
                    Contains(err[c].text, v) <=> v = VariantOf(cfg[c].Exporter).prefix
              /\ Is(err[c], ErrConstruct)

C10_Witness ==
    \E c \in Calls :
        /\ stage[c] = "exporter"
        /\ cfg[c].Exporter = ExporterCloudTrace
        /\ Contains(err[c].text, "cloudtrace exporter")

\* C11: every Setup call ends in one of two outcomes: a handle with a provider
\* and a propagator and a nil error, or a nil handle and an error; a
\* validation, exporter-construction or resource-composition error aborts
\* Setup; and the handle of a successful console Setup shuts down without
\* error under a context that never ends.
C11_HandleOrError ==
    \A c \in Calls :
        /\ pc[c] = "done" =>
              \/ /\ err[c].nil
                 /\ stage[c] = "return"
                 /\ ~handle[c].nil
                 /\ handle[c].TP # 0
                 /\ handle[c].Propagator # "nil"
              \/ /\ ~err[c].nil
                 /\ stage[c] \in {"validate", "exporter", "resource"}
                 /\ handle[c] = NilProvider
                 /\ tp[c] = 0
                 /\ effects[c].globalWrites = <<>>
        /\ stage[c] \in {"validate", "exporter", "resource"} =>
              (pc[c] = "done" /\ ~err[c].nil)
        /\ (/\ lastShut[c].ran
            /\ lastShut[c].background
            /\ exporter[c].kind = "stdouttrace") => lastShut[c].result.nil

C11_Witness ==
    \E c \in Calls :
        /\ pc[c] = "done"
        /\ cfg[c].Exporter = <<>>
        /\ ~handle[c].nil
        /\ lastShut[c].ran
        /\ lastShut[c].background
        /\ lastShut[c].result.nil
        /\ tpState[c] = "shutdown"

\* C12 as stated: whenever the context ends while exporter construction or
\* resource detection is in progress, the Setup call returns a construction
\* error.
C12_CancelSurfacesAsError ==
    \A c \in Calls :
        (pc[c] = "done" /\ ctx[c].done /\ ctx[c].doneAt \in {"exporter", "resource"})
            => (~err[c].nil /\ stage[c] \in {"exporter", "resource"})

\* C12, amended: once the context has ended, a running Setup call returns
\* instead of blocking forever; it returns a construction error when the
\* collaborators it handed the context to were still waiting, and otherwise
\* whatever the collaborators produced.
C12_EndedContextLetsSetupReturn ==
    /\ \A c \in Calls :
          (pc[c] \notin {"idle", "done"} /\ ctx[c].done) ~> (pc[c] = "done")
    /\ [](\A c \in Calls :
            (pc[c] = "done" /\ ctx[c].blocks /\ stage[c] # "validate")
                => (~err[c].nil /\ stage[c] \in {"exporter", "resource"}))

C12_Witness ==
    \E c \in Calls :
        /\ pc[c] = "done"
        /\ cfg[c].Exporter = ExporterOTLP
        /\ ctx[c].blocks /\ ctx[c].done /\ ctx[c].doneAt = "exporter"
        /\ ~err[c].nil /\ stage[c] = "exporter"

\* C13: the provider samples parent-first with the resolved ratio: a span
\* with a parent takes the parent's decision whatever the ratio, a span
\* without a parent is never recorded at ratio 0 and always recorded at ratio 1.
C13_ParentRespectingSampler ==
    \A c \in Calls :
        spans[c].started =>
            /\ sampler[c] = (IF arg[c].SamplingRatio.present
                             THEN arg[c].SamplingRatio ELSE Float64(1, 10))
            /\ spans[c].parent = "sampled" => spans[c].recording
            /\ spans[c].parent = "unsampled" => ~spans[c].recording
            /\ (spans[c].parent = "none" /\ sampler[c] = Zero) => ~spans[c].recording
            /\ (spans[c].parent = "none" /\ sampler[c] = One) => spans[c].recording

C13_Witness ==
    \E c \in Calls :
        /\ spans[c].started
        /\ spans[c].parent = "sampled"
        /\ spans[c].recording
        /\ arg[c].SamplingRatio = Zero
        /\ sampler[c] = Zero

\* The hook the caller's options register, "nil" when they register none.
RegisteredHook(c) == ApplyOptions(opts[c], ZeroOptions).samplerHook

\* C14 as stated: a call that passes validation and registers a sampler hook
\* invokes it exactly once with the resolved ratio, whatever exporter
\* construction and resource composition do.
C14_HookOnceWhateverTheOutcome ==
    \A c \in Calls :
        (pc[c] = "done" /\ stage[c] # "validate" /\ RegisteredHook(c) # "nil")
            => /\ Len(effects[c].hooks) = 1
               /\ effects[c].hooks[1].ratio = sampler[c]

\* C14, amended: a call that passes validation and whose exporter is
\* constructed invokes the registered hook exactly once, with the resolved
\* ratio, whatever resource composition does; a call whose exporter
\* construction fails, or that fails validation, never invokes it.
C14_HookOnceAfterExporter ==
    \A c \in Calls :
        /\ Len(effects[c].hooks) <= 1
        /\ RegisteredHook(c) = "nil" => effects[c].hooks = <<>>
        /\ (pc[c] = "done" /\ RegisteredHook(c) # "nil") =>
              IF stage[c] \in {"resource", "return"}
              THEN effects[c].hooks =
                      <<[hook  |-> RegisteredHook(c),
                         ratio |-> IF arg[c].SamplingRatio.present
                                   THEN arg[c].SamplingRatio
                                   ELSE Float64(1, 10)]>>
              ELSE effects[c].hooks = <<>>

C14_Witness ==
    \E c \in Calls :
        /\ pc[c] = "done"
        /\ stage[c] = "resource"
        /\ arg[c].SamplingRatio = Zero
        /\ effects[c].hooks = <<[hook |-> "hook", ratio |-> Zero]>>

\* The invocation that wrote the process-wide default `what` last, 0 when
\* none has.
LastWriter(what) ==
    LET written == {i \in 1..Len(writeLog) : writeLog[i].what = what} IN
    IF written = {} THEN 0
    ELSE writeLog[CHOOSE i \in written : \A k \in written : k <= i].by

\* C16: Shutdown never undoes global registration: no Shutdown call writes a
\* process-wide default, and after any number of Shutdown calls on a handle
\* registered globally the defaults are still the ones its Setup registered
\* (unless a later Setup registered its own).
C16_ShutdownKeepsGlobals ==
    /\ [](\A c \in Calls :
            (shutCalls[c] > 0 /\ ~handle[c].nil /\ options[c].global) =>
                /\ effects[c].globalWrites = <<"TracerProvider", "TextMapPropagator">>
                /\ LastWriter("TracerProvider") = c => globalTP = handle[c].TP
                /\ LastWriter("TextMapPropagator") = c
                      => globalProp = handle[c].Propagator)
    /\ [][(shutCalls' # shutCalls) => UNCHANGED <<globalTP, globalProp, writeLog>>]_vars

C16_Witness ==
    \E c \in Calls :
        /\ shutCalls[c] = MaxShutdowns
        /\ ~handle[c].nil
        /\ options[c].global
        /\ tpState[c] = "shutdown"
        /\ LastWriter("TracerProvider") = c
        /\ globalTP = handle[c].TP
        /\ globalProp = handle[c].Propagator

\* C15: global registration is two separate unsynchronized writes, provider
\* then propagator; with overlapping registering calls each default holds
\* what its last writer wrote, in whatever order the calls ran.
C15_LastWriterWins ==
    /\ globalTP = (IF LastWriter("TracerProvider") = 0 THEN 0
                   ELSE tp[LastWriter("TracerProvider")])
    /\ globalProp = (IF LastWriter("TextMapPropagator") = 0 THEN "noop"
                     ELSE prop[LastWriter("TextMapPropagator")])
    /\ \A c \in Calls :
          /\ effects[c].globalWrites \in
                {<<>>, <<"TracerProvider">>, <<"TracerProvider", "TextMapPropagator">>}
          /\ (pc[c] = "done" /\ err[c].nil /\ options[c].global) =>
                effects[c].globalWrites = <<"TracerProvider", "TextMapPropagator">>

\* Two finished registering calls, the provider default from the first and
\* the propagator default from the second.
C15_Witness ==
    /\ pc[1] = "done" /\ pc[2] = "done"
    /\ options[1].global /\ options[2].global
    /\ ~handle[1].nil /\ ~handle[2].nil
    /\ handle[1].Propagator # handle[2].Propagator
    /\ globalTP = handle[1].TP
    /\ globalProp = handle[2].Propagator
    /\ writeLog[1].by = 2

\* The invocation appears in the record of writes of the defaults.
Wrote(c) == \E i \in 1..Len(writeLog) : writeLog[i].by = c

\* C18: a Setup call that fails at validation, exporter construction or
\* resource composition, or that succeeds without the global option, leaves
\* the process-wide defaults as they were: they are written only at the end
\* of a successful Setup that requested registration.
C18_GlobalsWrittenOnlyOnRegisteredSuccess ==
    /\ [](\A c \in Calls :
            /\ (pc[c] = "done" /\ (~err[c].nil \/ ~options[c].global)) =>
                  (effects[c].globalWrites = <<>> /\ ~Wrote(c))
            /\ Wrote(c) =>
                  /\ pc[c] \in {"setProp", "return", "done"}
                  /\ ApplyOptions(opts[c], ZeroOptions).global
                  /\ err[c].nil /\ tp[c] # 0 /\ res[c] # NoResource
                  /\ expState[c] # "none")
    /\ [](writeLog = <<>> => (globalTP = 0 /\ globalProp = "noop"))
    /\ [][(globalTP' # globalTP \/ globalProp' # globalProp) =>
             \E c \in Calls :
                 /\ pc[c] \in {"setTP", "setProp"}
                 /\ pc'[c] \in {"setProp", "return"}
                 /\ options[c].global
                 /\ Len(writeLog') = Len(writeLog) + 1]_vars

\* A registering call succeeded, another registering call failed at resource
\* composition, and the defaults are the first call's.
C18_Witness ==
    /\ pc[1] = "done" /\ pc[2] = "done"
    /\ ~handle[1].nil /\ options[1].global
    /\ ~err[2].nil /\ stage[2] = "resource"
    /\ ApplyOptions(opts[2], ZeroOptions).global
    /\ ~Wrote(2)
    /\ globalTP = handle[1].TP
    /\ globalProp = handle[1].Propagator

\* The position of the last option of the kind in the list, 0 when none is.
LastOf(os, kind) ==
    LET at == {i \in 1..Len(os) : os[i].kind = kind} IN
    IF at = {} THEN 0 ELSE CHOOSE i \in at : \A k \in at : k <= i

\* The directives of the first n options, in call order.
RECURSIVE Directives(_, _)
Directives(os, n) ==
    IF n = 0 THEN <<>>
    ELSE Directives(os, n - 1) \o
         (IF os[n].kind = "WithResourceOptions" THEN os[n].ropts ELSE <<>>)

\* The invocation has passed the option loop.
OptionsApplied(c) ==
    /\ pc[c] \notin {"idle", "validate", "options"}
    /\ ~(pc[c] = "done" /\ stage[c] = "validate")

\* C17: the option set is the fold of the non-nil options over the zero
\* struct: the flag is set when any WithGlobal is given, the propagator and
\* the hook are those of the last option setting them, the directives are the
\* concatenation of all WithResourceOptions arguments in call order; the
\* effective propagator is the override when set, else TraceContext+Baggage.
C17_OptionFold ==
    \A c \in Calls :
        /\ OptionsApplied(c) =>
              /\ options[c].global = (LastOf(opts[c], "WithGlobal") # 0)
              /\ options[c].propagator =
                    (IF LastOf(opts[c], "WithPropagator") = 0 THEN "nil"
                     ELSE opts[c][LastOf(opts[c], "WithPropagator")].p)
              /\ options[c].samplerHook =
                    (IF LastOf(opts[c], "withSamplerHook") = 0 THEN "nil"
                     ELSE opts[c][LastOf(opts[c], "withSamplerHook")].hook)
              /\ options[c].resourceOpts = Directives(opts[c], Len(opts[c]))
              /\ effects[c].mutators =
                    Cardinality({i \in 1..Len(opts[c]) : opts[c][i].kind # "nil"})
        /\ ~OptionsApplied(c) => options[c] = ZeroOptions
        /\ tp[c] # 0 =>
              prop[c] = (IF options[c].propagator = "nil"
                         THEN "TraceContext+Baggage" ELSE options[c].propagator)
        /\ (pc[c] = "done" /\ err[c].nil) => handle[c].Propagator = prop[c]

C17_Witness ==
    \E c \in Calls :
        /\ pc[c] = "done" /\ err[c].nil
        /\ opts[c] = <<WithResourceOptions(<<"WithOS", "WithProcess">>),
                       WithResourceOptions(<<"WithContainer">>)>>
        /\ options[c].resourceOpts = <<"WithOS", "WithProcess", "WithContainer">>
        /\ handle[c].Propagator = "TraceContext+Baggage"

====
